---- MODULE Spec2Model ----
(***************************************************************************)
(* A model of firebase-artifact-pruner's CLI (src/src/index.ts): main,     *)
(* listApps, listReleases and deleteReleases, run against a remote         *)
(* service whose responses are chosen nondeterministically, and of the     *)
(* GitHub Action's run (src/src/action-entrypoint.ts) and the built CLI's   *)
(* main (src/dist/index.js) around their call of runPruner.                *)
(*                                                                         *)
(* Time is counted in whole days (the process runs in UTC, every instant   *)
(* is noon of its day): a release's createTime and the clock are day       *)
(* numbers, day 0 being 14 June 2024, so that                              *)
(* cutoffDate.setDate(getDate() - maxDays) is now - maxDays as long as     *)
(* that day is within the range of Date, and an Invalid Date beyond it.    *)
(* A release name is the pair <<app, k>>: the k-th release the listing of  *)
(* that app returned (names are unique within an app).                     *)
(***************************************************************************)
EXTENDS Integers, Sequences, FiniteSets, TLC

\* ------------------------------------------------------------- bounds
MaxApps == 2
MaxReleases == 2
MaxPages == 2
MaxMinCount == 2
MaxMaxDays == 1
MaxChunks == 2

\* ------------------------------------------------- program constants
chunkSize == 100

\* ------------------------------------------------------------ values
None == "none"
Apps == 1..MaxApps
\* the days releases were created on, and the day the run takes place on
Times == {0, 1}
NowStart == CHOOSE t \in Times : \A u \in Times : u <= t
\* the continuation token the service hands out with its k-th page
PageToken(k) == <<"t1", "t2", "t3", "t4">>[k]
FailStatuses == {404, 500}

VARIABLES
    big,            \* which remote the run faces: small inventories or large ones
    options,        \* program.opts(): appId, minCount, maxDays
    now,            \* the clock new Date() reads
    pc,             \* where main is: start, tokenApps, awaitApps, loop, tokenList,
                    \* awaitList, tokenDelete, awaitDelete, done
    apps,           \* main's apps (all-apps mode)
    appIdx,         \* position of the for-of loop in apps (0: not in the loop)
    allReleases,    \* listReleases' allReleases
    releaseNames,   \* deleteReleases' releaseNames
    i,              \* deleteReleases' loop index
    inflight,       \* requests sent and not yet answered
    exitCode,       \* the process exit status
    completeLogged, \* "Pruning complete." was logged
    thrown,         \* the error main's outer catch caught (run's catch, for the Action)
    obs,            \* what was observed of the app being processed
    history,        \* the apps main has finished with, in order
    chunkFailed,    \* some batch-delete request of the run got a non-success response
    inputs,         \* the option texts and credential sources the run was started with
    report,         \* what the caller of runPruner reported (core.setFailed, core.info),
                    \* and whether runPruner made a remote call
    answer,         \* the page the step into this state received (<<>>: none)
    twin            \* a second run of main, with -a target, given the same responses

vars == <<big, options, now, pc, apps, appIdx, allReleases, releaseNames, i,
          inflight, exitCode, completeLogged, thrown, obs, history, chunkFailed,
          inputs, report, answer, twin>>

\* ----------------------------------------------------------- helpers
Min(a, b) == IF a < b THEN a ELSE b

SeqsUpTo(S, n) == UNION {[1..k -> S] : k \in 0..n}

\* Names that alters the last component of each name
Names_Altered(rs) == [k \in 1..Len(rs) |-> <<rs[k].name[1], 0 - rs[k].name[2]>>]

\* releasesToDelete.map((r) => r.name)
Names(rs) == [k \in 1..Len(rs) |-> rs[k].name]

\* JavaScript truthiness of result.nextPageToken
Truthy(t) == t # None /\ t # ""

\* options.appId is 0 when -a is not given or is the empty string
NoApp == 0

\* ------------------------------------------- option texts and numbers
\* An option's text is the sequence of its UTF-16 code units: "-1" is <<45, 49>>.
IsDigit(c) == c \in 48..57
DigitValue(c) == c - 48

\* the characters parseInt skips: the white space of ECMAScript (TAB, VT, FF,
\* SP, NBSP, ZWNBSP and the space separators U+1680, U+2000..U+200A, U+202F,
\* U+205F, U+3000) and its line terminators (LF, CR, U+2028, U+2029)
Whitespace ==
    {9, 11, 12, 32, 160, 65279, 5760, 8239, 8287, 12288} \cup 8192..8202
        \cup {10, 13, 8232, 8233}

\* String(n) for a non-negative integer n
RECURSIVE NumberText(_)
NumberText(n) ==
    IF n < 10 THEN <<48 + n>>
    ELSE NumberText(n \div 10) \o <<48 + (n % 10)>>

\* A number parsed from an option's text is an integer or Not-a-Number: every
\* comparison with NaN is false and every difference with it is NaN again.
\* The left operands in the program are a loop index, a release's day and the
\* clock's day: integers.
Number(n) == [nan |-> FALSE, val |-> n]
NaN == [nan |-> TRUE, val |-> 0]
IsNaN(x) == x.nan
GreaterOrEqual(a, b) == ~IsNaN(b) /\ a >= b.val
LessThan(a, b) == ~IsNaN(b) /\ a < b.val
Minus(a, b) == IF IsNaN(b) THEN NaN ELSE Number(a - b.val)

RECURSIVE SkipWhitespace(_)
SkipWhitespace(text) ==
    IF text # <<>> /\ Head(text) \in Whitespace THEN SkipWhitespace(Tail(text)) ELSE text

\* the value of the longest prefix of digits of text, read after acc
RECURSIVE LeadingDigits(_, _)
LeadingDigits(text, acc) ==
    IF text # <<>> /\ IsDigit(Head(text))
    THEN LeadingDigits(Tail(text), acc * 10 + DigitValue(Head(text)))
    ELSE acc

\* parseInt(text, 10): leading white space, an optional sign ("-" is 45, "+"
\* is 43), then digits up to the first other character; NaN when there is no
\* digit
ParseInt(text) ==
    LET t == SkipWhitespace(text)
        signed == t # <<>> /\ Head(t) \in {45, 43}
        body == IF signed THEN Tail(t) ELSE t
        v == LeadingDigits(body, 0)
    IN  IF body = <<>> \/ ~IsDigit(Head(body)) THEN NaN
        ELSE IF signed /\ Head(t) = 45 THEN Number(0 - v) ELSE Number(v)

\* ------------------------------------------------- the remote service
\* A release as the listing returns it: its name and its createTime.
Release(app, k, t) == [name |-> <<app, k>>, createTime |-> t]

\* The releases of a page that continues a listing of `have` releases.
PageReleases(app, have, times) ==
    [k \in 1..Len(times) |-> Release(app, have + k, times[k])]

\* Large inventories: n releases, all of day 0 or of days 0, 1, 0, 1, ...
BigSizes ==
    {n \in 0..(MaxChunks * chunkSize + chunkSize \div 2) :
        n % chunkSize \in {0, 1, chunkSize \div 2, chunkSize - 1}}

BigTimes ==
    {[k \in 1..n |-> 0] : n \in BigSizes}
        \cup {[k \in 1..n |-> k % Cardinality(Times)] : n \in BigSizes}

\* The bodies a successful listing request can return after `have` releases
\* in `sofar` pages: releases (or no releases field) and a nextPageToken (or none).
ListBodies(app, have, sofar) ==
    LET times == IF big THEN IF have = 0 THEN BigTimes ELSE {<<>>}
                 ELSE SeqsUpTo(Times, MaxReleases - have)
        toks  == IF sofar + 1 < MaxPages /\ ~big
                 THEN {PageToken(sofar + 1), None, ""} ELSE {None, ""}
    IN  {[hasReleases |-> TRUE, releases |-> PageReleases(app, have, ts), token |-> tk] :
            ts \in times, tk \in toks}
        \cup {[hasReleases |-> FALSE, releases |-> <<>>, token |-> tk] : tk \in toks}

\* The app lists a successful app-listing request can return (or no apps field).
AppLists == {[k \in 1..n |-> n + 1 - k] : n \in 0..MaxApps}

\* ------------------------------------------------- the pure functions
\* releases.sort((a, b) => time(b) - time(a)): Array.prototype.sort is stable, so
\* the result lists the releases of the newest createTime in their input order,
\* then those of the next createTime, and so on.
RECURSIVE NewestFirst(_, _)
NewestFirst(rs, keys) ==
    IF keys = {} THEN <<>>
    ELSE LET m == CHOOSE t \in keys : \A u \in keys : u <= t
             Is(r) == r.createTime = m
         IN  SelectSeq(rs, Is) \o NewestFirst(rs, keys \ {m})

\* SortNewestFirst that lists the releases of one createTime last-come first
SortNewestFirst_TiesReversed(rs) ==
    NewestFirst([k \in 1..Len(rs) |-> rs[Len(rs) + 1 - k]],
                {rs[k].createTime : k \in 1..Len(rs)})

\* SortNewestFirst that keeps one release of each createTime
SortNewestFirst_OnePerTime(rs) ==
    LET First(j) == \A k \in 1..(j - 1) : rs[k].createTime # rs[j].createTime
        firsts == {j \in 1..Len(rs) : First(j)}
        Kept(r) == \E j \in firsts : rs[j] = r
    IN  NewestFirst(SelectSeq(rs, Kept), {rs[k].createTime : k \in 1..Len(rs)})

\* the sort of the all-apps branch (277-280)
SortNewestFirst(rs) == NewestFirst(rs, {rs[k].createTime : k \in 1..Len(rs)})

\* the sort of the single-app branch (200-203): the same comparator, written
\* a second time
SortNewestFirstSingle(rs) == NewestFirst(rs, {rs[k].createTime : k \in 1..Len(rs)})

\* the day numbered 0, counted from 1 January 1970: 14 June 2024
EpochDay == 19888

\* a Date holds an instant at most 100,000,000 days from 1 January 1970,
\* 00:00 UTC, either side
MaxDateDays == 100000000

\* TimeClip: noon of the day is an instant a Date can hold
InDateRange(day) ==
    EpochDay + day >= 0 - MaxDateDays /\ EpochDay + day < MaxDateDays

\* a Date is the day it holds, or an Invalid Date: its time value is NaN, and
\* releaseDate < cutoffDate is false
InvalidDate == NaN

\* cutoffDate = new Date(); cutoffDate.setDate(cutoffDate.getDate() - maxDays):
\* the day maxDays days before the clock's, an Invalid Date when maxDays is
\* NaN or that day is out of the range of Date
CutoffDate(clock, maxDays) ==
    LET day == Minus(clock, maxDays)
    IN  IF IsNaN(day) \/ ~InDateRange(day.val) THEN InvalidDate ELSE day

\* ShouldDelete with a release created at the cutoff counted as stale
ShouldDelete_AtCutoffToo(idx, release, minCount, cutoff) ==
    idx >= minCount.val /\ release.createTime <= cutoff.val

\* ShouldDelete with the age test inverted: releases not older than the cutoff
ShouldDelete_AgeInverted(idx, release, minCount, cutoff) ==
    idx >= minCount.val /\ release.createTime >= cutoff.val

\* ShouldDelete with the count floor taken one short
ShouldDelete_FloorOneShort(idx, release, minCount, cutoff) ==
    idx >= minCount.val - 1 /\ release.createTime < cutoff.val

\* the all-apps branch (290): if (i >= minCount && releaseDate < cutoffDate),
\* i the 0-based index
ShouldDelete(idx, release, minCount, cutoff) ==
    GreaterOrEqual(idx, minCount) /\ LessThan(release.createTime, cutoff)

\* the loop of the all-apps branch that fills releasesToDelete (282-293), in
\* the order of releases
ReleasesToDelete(rs, minCount, cutoff) ==
    LET indexed == [k \in 1..Len(rs) |-> [idx |-> k - 1, release |-> rs[k]]]
        Push(e) == ShouldDelete(e.idx, e.release, minCount, cutoff)
        pushed == SelectSeq(indexed, Push)
    IN  [k \in 1..Len(pushed) |-> pushed[k].release]

\* ShouldDeleteSingle with the count floor taken strictly: i > minCount
ShouldDeleteSingle_FloorStrict(idx, release, minCount, cutoff) ==
    ~IsNaN(minCount) /\ idx > minCount.val /\ LessThan(release.createTime, cutoff)

\* the single-app branch (211): if (i >= minCount && releaseDate < cutoffDate)
ShouldDeleteSingle(idx, release, minCount, cutoff) ==
    GreaterOrEqual(idx, minCount) /\ LessThan(release.createTime, cutoff)

\* the loop of the single-app branch that fills releasesToDelete (204-214)
ReleasesToDeleteSingle(rs, minCount, cutoff) ==
    LET indexed == [k \in 1..Len(rs) |-> [idx |-> k - 1, release |-> rs[k]]]
        Push(e) == ShouldDeleteSingle(e.idx, e.release, minCount, cutoff)
        pushed == SelectSeq(indexed, Push)
    IN  [k \in 1..Len(pushed) |-> pushed[k].release]

\* AddPage that keeps only the page just received
AddPage_KeepsLastPage(all, body) == IF body.hasReleases THEN body.releases ELSE <<>>

\* allReleases.concat(result.releases || [])
AddPage(all, body) == all \o (IF body.hasReleases THEN body.releases ELSE <<>>)

\* Chunk with the slice's end one too far: slice(i, i + chunkSize + 1)
Chunk_OneTooMany(names, idx) == SubSeq(names, idx + 1, Min(idx + chunkSize + 1, Len(names)))

\* releaseNames.slice(i, i + chunkSize)
Chunk(names, idx) == SubSeq(names, idx + 1, Min(idx + chunkSize, Len(names)))

\* ------------------------------------------------- the program's steps
\* The program's state as one record; each step below maps it to the next.
S ==
    [pc |-> pc, apps |-> apps, appIdx |-> appIdx, allReleases |-> allReleases,
     releaseNames |-> releaseNames, i |-> i, inflight |-> inflight,
     exitCode |-> exitCode, completeLogged |-> completeLogged, thrown |-> thrown,
     obs |-> obs, history |-> history, chunkFailed |-> chunkFailed, report |-> report,
     single |-> options.appId # NoApp]

ApplyRun(s) ==
    /\ pc' = s.pc
    /\ apps' = s.apps
    /\ appIdx' = s.appIdx
    /\ allReleases' = s.allReleases
    /\ releaseNames' = s.releaseNames
    /\ i' = s.i
    /\ inflight' = s.inflight
    /\ exitCode' = s.exitCode
    /\ completeLogged' = s.completeLogged
    /\ thrown' = s.thrown
    /\ obs' = s.obs
    /\ history' = s.history
    /\ chunkFailed' = s.chunkFailed
    /\ report' = s.report
    /\ UNCHANGED <<big, options, now, inputs>>

\* a step of main that received no page
Plain(s) == answer' = <<>> /\ ApplyRun(s)

Apply(s) == Plain(s) /\ UNCHANGED twin

\* An Error value: what failed, for which app, with which HTTP status.
Err(kind, app, status) == [kind |-> kind, app |-> app, status |-> status]
NoError == Err("none", NoApp, 0)

\* the value of a call that returns nothing (Promise<void>)
Undefined == [type |-> "undefined"]

\* What main records of one app, from its first listing request on.
NewObs(app) ==
    [app |-> app, listReqs |-> <<>>, listResps |-> <<>>, listFailed |-> FALSE,
     listed |-> FALSE, collected |-> <<>>, selected |-> FALSE, sorted |-> <<>>,
     minCount |-> Number(0), cutoff |-> Number(0), toDelete |-> <<>>,
     delCalled |-> FALSE, delReqs |-> <<>>, delResps |-> <<>>,
     delReturned |-> FALSE, delThrew |-> FALSE, outcome |-> Undefined]

\* Exit1 without process.exit(1): the catch logs and main ends normally
Exit1_LogsOnly(s, err) ==
    [s EXCEPT !.pc = "done", !.thrown = err, !.inflight = {}]

\* main's outer catch: console.error, process.exit(1)
Exit1(s, err) ==
    [s EXCEPT !.pc = "done", !.exitCode = 1, !.thrown = err, !.inflight = {}]

\* console.log("\nPruning complete."), and main returns
Complete(s) == [s EXCEPT !.pc = "done", !.completeLogged = TRUE]

\* fetch(url) of listReleases: the request carries the page token, if any
SendList(s, app, token) ==
    [s EXCEPT !.pc = "awaitList",
              !.inflight = @ \cup {[kind |-> "list", app |-> app, token |-> token, names |-> <<>>]},
              !.obs.listReqs = Append(@, token)]

\* listReleases is called: it waits for its access token (await
\* auth.getClient(), await client.getAccessToken())
CallListReleases(s, app) ==
    [s EXCEPT !.pc = "tokenList", !.obs = NewObs(app), !.allReleases = <<>>]

\* listReleases' access token is granted: allReleases = [] and the first page
\* request; or refused: listReleases lets the rejection through to main's
\* outer catch
ListTokenAnswered(s, authOk) ==
    IF authOk THEN SendList(s, s.obs.app, None)
    ELSE Exit1(s, Err("auth", s.obs.app, 0))

\* listApps is called: it waits for its access token
CallListApps(s) == [s EXCEPT !.pc = "tokenApps"]

\* listApps' access token is granted: the app-listing request; or refused:
\* main's outer catch
AppsTokenAnswered(s, authOk) ==
    IF authOk
    THEN [s EXCEPT !.pc = "awaitApps",
                   !.inflight = @ \cup {[kind |-> "apps", app |-> NoApp,
                                         token |-> None, names |-> <<>>]}]
    ELSE Exit1(s, Err("auth", NoApp, 0))

\* the end of one app's processing in the branch main is in: on to
\* "Pruning complete." (single-app branch, 242-324), or back to the head of
\* the for loop over apps (all-apps branch)
FinishApp(s) ==
    LET s1 == [s EXCEPT !.history = Append(@, s.obs.app)]
    IN  IF s.single THEN Complete(s1) ELSE [s1 EXCEPT !.pc = "loop"]

\* the head of for (const app of apps): the next app's listReleases, or the end
LoopHead(s) ==
    IF s.appIdx < Len(s.apps)
    THEN CallListReleases([s EXCEPT !.appIdx = @ + 1], s.apps[s.appIdx + 1])
    ELSE Complete(s)

\* fetch(url, POST) of deleteReleases: the request carries the chunk at s.i
SendDelete(s) ==
    LET chunk == Chunk(s.releaseNames, s.i)
    IN  [s EXCEPT !.pc = "awaitDelete",
                  !.inflight = @ \cup {[kind |-> "delete", app |-> s.obs.app,
                                        token |-> None, names |-> chunk]},
                  !.obs.delReqs = Append(@, chunk)]

\* deleteReleases returns (Promise<void>)
DeleteReturned(s) ==
    FinishApp([s EXCEPT !.obs.delReturned = TRUE, !.obs.outcome = Undefined])

\* DeleteThrew without main's per-app try/catch: the outer catch ends the run
DeleteThrew_Uncaught(s) ==
    Exit1([s EXCEPT !.obs.delThrew = TRUE], Err("fetch", s.obs.app, 0))

\* deleteReleases throws: main's per-app catch logs the error
DeleteThrew(s) == FinishApp([s EXCEPT !.obs.delThrew = TRUE])

\* DeleteTokenAnswered without main's await of deleteReleases: main goes on
\* while the first chunk's request is outstanding
DeleteTokenAnswered_NotAwaited(s, authOk) ==
    IF authOk THEN FinishApp([SendDelete(s) EXCEPT !.obs.delReturned = TRUE])
    ELSE DeleteThrew(s)

\* deleteReleases' access token is granted: the first chunk's request; or
\* refused: deleteReleases lets the rejection through to main's per-app catch
DeleteTokenAnswered(s, authOk) ==
    IF authOk THEN SendDelete(s) ELSE DeleteThrew(s)

\* deleteReleases is called: the empty guard, then it waits for its access
\* token (await auth.getClient(), await client.getAccessToken()), main being
\* suspended at await deleteReleases
CallDeleteReleases(s, names) ==
    LET s1 == [s EXCEPT !.releaseNames = names, !.i = 0, !.obs.delCalled = TRUE]
    IN  IF Len(names) = 0 THEN DeleteReturned(s1)
        ELSE [s1 EXCEPT !.pc = "tokenDelete"]

\* single-app branch (196-214): listReleases has returned; main sorts the
\* releases and selects those to delete
SelectedSingle(s, clock) ==
    LET s1 == [s EXCEPT !.obs.listed = TRUE, !.obs.collected = s.allReleases]
    IN  IF Len(s.allReleases) = 0 THEN s1
        ELSE LET sorted == SortNewestFirstSingle(s.allReleases)
                 cutoff == CutoffDate(clock, options.maxDays)
                 toDel  == ReleasesToDeleteSingle(sorted, options.minCount, cutoff)
             IN  [s1 EXCEPT !.allReleases = sorted,
                            !.obs.selected = TRUE, !.obs.sorted = sorted,
                            !.obs.minCount = options.minCount,
                            !.obs.cutoff = cutoff, !.obs.toDelete = toDel]

\* all-apps branch (269-293): listReleases has returned; main sorts the
\* releases and selects those to delete
Selected(s, clock) ==
    LET s1 == [s EXCEPT !.obs.listed = TRUE, !.obs.collected = s.allReleases]
    IN  IF Len(s.allReleases) = 0 THEN s1
        ELSE LET sorted == SortNewestFirst(s.allReleases)
                 cutoff == CutoffDate(clock, options.maxDays)
                 toDel  == ReleasesToDelete(sorted, options.minCount, cutoff)
             IN  [s1 EXCEPT !.allReleases = sorted,
                            !.obs.selected = TRUE, !.obs.sorted = sorted,
                            !.obs.minCount = options.minCount,
                            !.obs.cutoff = cutoff, !.obs.toDelete = toDel]

\* DeleteSelected without main's two empty checks and without deleteReleases' guard
DeleteSelected_NoEmptyCheck(s) ==
    [s EXCEPT !.pc = "tokenDelete", !.obs.selected = TRUE,
              !.releaseNames = Names(s.obs.toDelete), !.i = 0,
              !.obs.delCalled = TRUE]

\* all-apps branch (269-315) after the selection: on to the next app
\* (continue) when there are no releases or none to delete, deleteReleases with
\* the selected names otherwise
DeleteSelected(s) ==
    IF Len(s.allReleases) = 0 \/ Len(s.obs.toDelete) = 0
    THEN [s EXCEPT !.pc = "loop", !.history = Append(@, s.obs.app)]
    ELSE CallDeleteReleases(s, Names(s.obs.toDelete))

\* single-app branch (196-234) after the selection: the two if / else: on to
\* "Pruning complete." when there are no releases or none to delete,
\* deleteReleases with the selected names otherwise
DeleteSelectedSingle(s) ==
    IF Len(s.allReleases) = 0 THEN Complete([s EXCEPT !.history = Append(@, s.obs.app)])
    ELSE IF Len(s.obs.toDelete) = 0
         THEN Complete([s EXCEPT !.history = Append(@, s.obs.app)])
    ELSE CallDeleteReleases(s, Names(s.obs.toDelete))

\* listReleases has returned to the branch of main that called it: main
\* sorts, selects and calls deleteReleases
AfterList(s, clock) ==
    IF s.single THEN DeleteSelectedSingle(SelectedSingle(s, clock))
    ELSE DeleteSelected(Selected(s, clock))

\* ListFailed that ends the pagination loop and returns the pages read so far
ListFailed_ReturnsPartial(s, app, st) ==
    AfterList([s EXCEPT !.obs.listFailed = TRUE,
                        !.obs.listResps = Append(@, [ok |-> FALSE, status |-> st,
                                                     hasReleases |-> FALSE,
                                                     releases |-> <<>>, token |-> None])],
              now)

\* a listing page request got a non-success response: listReleases throws, and
\* main's outer catch ends the process
ListFailed(s, app, st) ==
    Exit1([s EXCEPT !.obs.listFailed = TRUE,
                    !.obs.listResps = Append(@, [ok |-> FALSE, status |-> st,
                                                 hasReleases |-> FALSE, releases |-> <<>>,
                                                 token |-> None])],
          Err("listReleases", app, st))

\* a listing page request got a success response: the page is added, and the
\* loop goes on while the page has a nextPageToken
PageReceived(s, app, body, clock) ==
    LET s1 == [s EXCEPT !.allReleases = AddPage(@, body),
                        !.obs.listResps = Append(@, [ok |-> TRUE, status |-> 200,
                                                     hasReleases |-> body.hasReleases,
                                                     releases |-> body.releases,
                                                     token |-> body.token])]
    IN  IF Truthy(body.token) THEN SendList(s1, app, body.token)
        ELSE AfterList(s1, clock)

\* ChunkAnswered that sends a chunk again until its request succeeds
ChunkAnswered_RetriesFailed(s, st) ==
    LET s1 == [s EXCEPT !.obs.delResps = Append(@, st),
                        !.i = IF st = 200 THEN @ + chunkSize ELSE @,
                        !.chunkFailed = @ \/ st # 200]
    IN  IF s1.i < Len(s1.releaseNames) THEN SendDelete(s1)
        ELSE DeleteReturned(s1)

\* ChunkAnswered that leaves the loop at the first non-success response
ChunkAnswered_StopsOnFailure(s, st) ==
    LET s1 == [s EXCEPT !.obs.delResps = Append(@, st), !.i = @ + chunkSize,
                        !.chunkFailed = @ \/ st # 200]
    IN  IF st = 200 /\ s1.i < Len(s1.releaseNames) THEN SendDelete(s1)
        ELSE DeleteReturned(s1)

\* a batch-delete request got a response, success or not: it is logged, and the
\* for loop goes on with the next chunk
ChunkAnswered(s, st) ==
    LET s1 == [s EXCEPT !.obs.delResps = Append(@, st), !.i = @ + chunkSize,
                        !.chunkFailed = @ \/ st # 200]
    IN  IF s1.i < Len(s1.releaseNames) THEN SendDelete(s1)
        ELSE DeleteReturned(s1)

\* ------------------------------------------------------------ actions
\* main up to its first await: the key file, then the call of listReleases
\* or of listApps
Start ==
    /\ pc = "start"
    /\ \E keyOk \in BOOLEAN :
          Apply(IF ~keyOk THEN Exit1(S, Err("key", NoApp, 0))
                ELSE IF options.appId # NoApp
                     THEN CallListReleases(S, options.appId)
                ELSE CallListApps(S))

\* listApps' access-token acquisition ends, granted or refused
ListAppsToken ==
    /\ pc = "tokenApps"
    /\ \E authOk \in BOOLEAN : Apply(AppsTokenAnswered(S, authOk))

\* the app-listing request is answered
ListAppsResponse ==
    /\ pc = "awaitApps"
    /\ \E rq \in inflight :
        /\ rq.kind = "apps"
        /\ LET s0 == [S EXCEPT !.inflight = @ \ {rq}]
           IN  \/ Apply(Exit1(s0, Err("fetch", NoApp, 0)))
               \/ \E st \in FailStatuses : Apply(Exit1(s0, Err("listApps", NoApp, st)))
               \/ \E list \in AppLists, hasApps \in BOOLEAN :
                     Apply(IF ~hasApps \/ Len(list) = 0
                           THEN [s0 EXCEPT !.pc = "done"]
                           ELSE [s0 EXCEPT !.pc = "loop", !.apps = list])

\* the for loop over apps takes its next app
NextApp ==
    /\ pc = "loop"
    /\ Apply(LoopHead(S))

\* listReleases' access-token acquisition ends, granted or refused
ListReleasesToken ==
    /\ pc = "tokenList"
    /\ \E authOk \in BOOLEAN : Apply(ListTokenAnswered(S, authOk))

\* a release-listing request is answered
ListReleasesResponse ==
    /\ pc = "awaitList"
    /\ \E rq \in inflight :
        /\ rq.kind = "list"
        /\ LET s0 == [S EXCEPT !.inflight = @ \ {rq}]
           IN  \/ Apply(Exit1(s0, Err("fetch", rq.app, 0)))
               \/ \E st \in FailStatuses : Apply(ListFailed(s0, rq.app, st))
               \/ \E body \in ListBodies(rq.app, Len(allReleases), Len(obs.listResps)) :
                     /\ answer' = <<body>>
                     /\ ApplyRun(PageReceived(s0, rq.app, body, now))
                     /\ UNCHANGED twin

\* deleteReleases' access-token acquisition ends, granted or refused
DeleteReleasesToken ==
    /\ pc = "tokenDelete"
    /\ \E authOk \in BOOLEAN : Apply(DeleteTokenAnswered(S, authOk))

\* a batch-delete request is answered
DeleteResponse ==
    /\ pc = "awaitDelete"
    /\ \E rq \in inflight :
        /\ rq.kind = "delete"
        /\ LET s0 == [S EXCEPT !.inflight = @ \ {rq}]
           IN  \/ Apply(DeleteThrew([s0 EXCEPT !.obs.delResps = Append(@, 0)]))
               \/ \E st \in FailStatuses \cup {200} : Apply(ChunkAnswered(s0, st))

\* ------------------------------------------------ the Action's run
\* the message of run's core.setFailed when no credential source is given
GateMessage ==
    "Either \"service-account-key-json\", \"service-account-key-path\", or GOOGLE_APPLICATION_CREDENTIALS env must be provided."

NoReport == [failed |-> None, info |-> FALSE, remote |-> FALSE]

\* a thrown value that is not an Error: it has no message
NotAnError == Err("not an Error", NoApp, 0)

\* error instanceof Error
InstanceOfError(error) == error # NotAnError

\* the message run reports for a thrown value that is not an Error
UnknownErrorMessage == "An unknown error occurred"

\* the negation of run's if condition: some credential source is non-empty
CredentialGiven(in) ==
    in.keyJson # "" \/ in.keyPath # "" \/ in.envCredentials # ""

\* core.setFailed(the gate's message); return
GateFailed(s) ==
    [s EXCEPT !.pc = "done", !.exitCode = 1, !.report.failed = GateMessage]

\* run, from its inputs to the gate and the call of runPruner
Run ==
    /\ pc = "run"
    /\ Apply(IF ~CredentialGiven(inputs) THEN GateFailed(S)
             ELSE [S EXCEPT !.pc = "pruner"])

\* runPruner, as the specification describes it: with a credential source it
\* issues remote calls one at a time (with none it attempts no remote call) ...
PrunerRequest ==
    /\ pc = "pruner"
    /\ CredentialGiven(inputs)
    /\ inflight = {}
    /\ \E kind \in {"apps", "list", "delete"} :
          Apply([S EXCEPT !.inflight = {[kind |-> kind, app |-> NoApp,
                                        token |-> None, names |-> <<>>]},
                         !.report.remote = TRUE])

\* ... each of which is answered: the run goes on (an app's failure does not
\* stop the other apps), or a listing failure ends it (single-app mode) ...
PrunerResponse ==
    /\ pc = "pruner"
    /\ \E rq \in inflight :
          \/ Apply([S EXCEPT !.inflight = {}])
          \/ /\ rq.kind \in {"apps", "list"}
             /\ \E st \in FailStatuses :
                   Apply([S EXCEPT !.inflight = {}, !.pc = "threw",
                                  !.thrown = Err("ListingFailed", NoApp, st)])

\* ... and it returns, or fails before its first call (ConfigurationInvalid)
\* when no credential source resolves: none is given, or the one that is given
\* does not resolve; or it raises a value that is not an Error
PrunerEnds ==
    /\ pc = "pruner"
    /\ inflight = {}
    /\ \/ /\ CredentialGiven(inputs)
          /\ Apply([S EXCEPT !.pc = "returned"])
       \/ /\ ~report.remote
          /\ Apply([S EXCEPT !.pc = "threw",
                             !.thrown = Err("ConfigurationInvalid", NoApp, 0)])
       \/ /\ CredentialGiven(inputs)
          /\ Apply([S EXCEPT !.pc = "threw", !.thrown = NotAnError])

\* the catch of run: core.setFailed(error.message) when what was thrown is an
\* Error, core.setFailed("An unknown error occurred") otherwise
Caught(s) ==
    [s EXCEPT !.pc = "done", !.exitCode = 1,
              !.report.failed = IF InstanceOfError(s.thrown) THEN s.thrown.kind
                                ELSE UnknownErrorMessage]

\* run after runPruner: core.info, or the catch
RunEnd ==
    /\ inputs.entry = "action"
    /\ \/ /\ pc = "returned"
          /\ Apply([S EXCEPT !.pc = "done", !.report.info = TRUE])
       \/ /\ pc = "threw"
          /\ Apply(Caught(S))

\* ------------------------------------------- the built CLI's main
\* main of dist/index.js, from its options to its call of runPruner
DistMain ==
    /\ pc = "distMain"
    /\ Apply([S EXCEPT !.pc = "pruner"])

\* the catch of dist/index.js' main: process.exit(1), nothing is reported
DistCaught(s) == [s EXCEPT !.pc = "done", !.exitCode = 1]

\* main of dist/index.js after runPruner: it returns, or the catch
DistMainEnd ==
    /\ inputs.entry = "dist"
    /\ \/ /\ pc = "returned"
          /\ Apply([S EXCEPT !.pc = "done"])
       \/ /\ pc = "threw"
          /\ Apply(DistCaught(S))

\* ---------------------------------------------------- specifications
Options ==
    [appId : Apps \cup {NoApp}, minCount : {Number(n) : n \in 0..MaxMinCount},
     maxDays : {Number(n) : n \in 0..MaxMaxDays}]

\* no second run
NoTwin == [target |-> NoApp, started |-> FALSE, run |-> Undefined]

\* the command line that gives the options opts: -k and the policy's texts
CliInputs(appId, minCount, maxDays) ==
    [entry |-> "cli", keyJson |-> "", keyPath |-> "key.json", envCredentials |-> "",
     appId |-> appId, minCount |-> minCount, maxDays |-> maxDays]

\* the Action's inputs, as core.getInput returns them, and its environment
ActionInputs(keyJson, keyPath, env, appId, minCount, maxDays) ==
    [entry |-> "action", keyJson |-> keyJson, keyPath |-> keyPath, envCredentials |-> env,
     appId |-> appId, minCount |-> minCount, maxDays |-> maxDays]

\* the command line of the built CLI, as program.opts() gives it, and its
\* environment: -k and --serviceAccountKeyJson are optional; the texts of -c
\* and -d are those given or commander's defaults "5" and "30"
DistInputs(keyJson, keyPath, env, appId, minCount, maxDays) ==
    [entry |-> "dist", keyJson |-> keyJson, keyPath |-> keyPath, envCredentials |-> env,
     appId |-> appId, minCount |-> minCount, maxDays |-> maxDays]

\* core.getInput(name) || fallback
OrDefault(text, fallback) == IF text = <<>> THEN fallback ELSE text

\* the options main (of either CLI) and run read from their inputs
ParseOptions(in) ==
    IF in.entry = "action"
    THEN [appId |-> in.appId,
          minCount |-> ParseInt(OrDefault(in.minCount, <<53>>)),
          maxDays |-> ParseInt(OrDefault(in.maxDays, <<51, 48>>))]
    ELSE [appId |-> in.appId,
          minCount |-> ParseInt(in.minCount),
          maxDays |-> ParseInt(in.maxDays)]

InitWith(b) ==
    /\ big = b
    /\ options \in Options
    /\ inputs = CliInputs(options.appId, NumberText(options.minCount.val),
                          NumberText(options.maxDays.val))
    /\ report = NoReport
    /\ now = NowStart
    /\ pc = "start"
    /\ apps = <<>>
    /\ appIdx = 0
    /\ allReleases = <<>>
    /\ releaseNames = <<>>
    /\ i = 0
    /\ inflight = {}
    /\ exitCode = 0
    /\ completeLogged = FALSE
    /\ thrown = NoError
    /\ obs = NewObs(NoApp)
    /\ history = <<>>
    /\ chunkFailed = FALSE
    /\ twin = NoTwin
    /\ answer = <<>>

Init == InitWith(FALSE)

InitBig == InitWith(TRUE)

Next ==
    \/ Start
    \/ ListAppsToken
    \/ ListAppsResponse
    \/ NextApp
    \/ ListReleasesToken
    \/ ListReleasesResponse
    \/ DeleteReleasesToken
    \/ DeleteResponse

Spec == Init /\ [][Next]_vars

SpecBig == InitBig /\ [][Next]_vars

\* The runs in which every outstanding request is eventually answered (await
\* fetch resolves or rejects), every access-token acquisition eventually ends
\* and main, when it can take a step, eventually takes it.
SpecFair == Init /\ [][Next]_vars /\ WF_vars(Next)

\* The two modes side by side: a run of main without -a, and next to it a run
\* of main with -a target that is given, request by request, the responses
\* the first run gets (and the same access tokens or refusals) while it
\* processes the app target.
\* main with -a app, from its start to its call of listReleases
SingleRun(app) ==
    CallListReleases(
        [pc |-> "start", apps |-> <<>>, appIdx |-> 0, allReleases |-> <<>>,
         releaseNames |-> <<>>, i |-> 0, inflight |-> {}, exitCode |-> 0,
         completeLogged |-> FALSE, thrown |-> NoError, obs |-> NewObs(NoApp),
         history |-> <<>>, chunkFailed |-> FALSE, report |-> NoReport, single |-> TRUE],
        app)

\* the for loop takes its next app; when that app is target, the second run starts
ModesNextApp ==
    /\ pc = "loop"
    /\ Plain(LoopHead(S))
    /\ twin' = IF appIdx >= Len(apps) THEN twin
               ELSE IF apps[appIdx + 1] = twin.target
                    THEN [twin EXCEPT !.started = TRUE, !.run = SingleRun(twin.target)]
               ELSE [twin EXCEPT !.started = FALSE, !.run = Undefined]

\* listReleases' access-token acquisition ends, in both runs alike
ModesListReleasesToken ==
    /\ pc = "tokenList"
    /\ \E authOk \in BOOLEAN :
          /\ Plain(ListTokenAnswered(S, authOk))
          /\ twin' = IF twin.started /\ twin.run.pc = "tokenList"
                     THEN [twin EXCEPT !.run = ListTokenAnswered(twin.run, authOk)]
                     ELSE twin

\* a release-listing request is answered, in both runs alike
ModesListReleasesResponse ==
    /\ pc = "awaitList"
    /\ \E rq \in inflight :
        /\ rq.kind = "list"
        /\ LET s0 == [S EXCEPT !.inflight = @ \ {rq}]
               live == twin.started /\ twin.run.pc = "awaitList"
               t0 == [twin.run EXCEPT !.inflight = {}]
           IN  \/ /\ Plain(Exit1(s0, Err("fetch", rq.app, 0)))
                  /\ twin' = IF live
                             THEN [twin EXCEPT !.run = Exit1(t0, Err("fetch", twin.target, 0))]
                             ELSE twin
               \/ \E st \in FailStatuses :
                     /\ Plain(ListFailed(s0, rq.app, st))
                     /\ twin' = IF live
                                THEN [twin EXCEPT !.run = ListFailed(t0, twin.target, st)]
                                ELSE twin
               \/ \E body \in ListBodies(rq.app, Len(allReleases), Len(obs.listResps)) :
                     /\ answer' = <<body>>
                     /\ ApplyRun(PageReceived(s0, rq.app, body, now))
                     /\ twin' = IF live
                                THEN [twin EXCEPT !.run =
                                         PageReceived(t0, twin.target, body, now)]
                                ELSE twin

\* deleteReleases' access-token acquisition ends, in both runs alike
ModesDeleteReleasesToken ==
    /\ pc = "tokenDelete"
    /\ \E authOk \in BOOLEAN :
          /\ Plain(DeleteTokenAnswered(S, authOk))
          /\ twin' = IF twin.started /\ twin.run.pc = "tokenDelete"
                     THEN [twin EXCEPT !.run = DeleteTokenAnswered(twin.run, authOk)]
                     ELSE twin

\* a batch-delete request is answered, in both runs alike
ModesDeleteResponse ==
    /\ pc = "awaitDelete"
    /\ \E rq \in inflight :
        /\ rq.kind = "delete"
        /\ LET s0 == [S EXCEPT !.inflight = @ \ {rq}]
               live == twin.started /\ twin.run.pc = "awaitDelete"
               t0 == [twin.run EXCEPT !.inflight = {}]
           IN  \/ /\ Plain(DeleteThrew([s0 EXCEPT !.obs.delResps = Append(@, 0)]))
                  /\ twin' = IF live
                             THEN [twin EXCEPT !.run =
                                      DeleteThrew([t0 EXCEPT !.obs.delResps = Append(@, 0)])]
                             ELSE twin
               \/ \E st \in FailStatuses \cup {200} :
                     /\ Plain(ChunkAnswered(s0, st))
                     /\ twin' = IF live
                                THEN [twin EXCEPT !.run = ChunkAnswered(t0, st)]
                                ELSE twin

InitModes ==
    /\ big = FALSE
    /\ options \in {o \in Options : o.appId = NoApp}
    /\ inputs = CliInputs(options.appId, NumberText(options.minCount.val),
                          NumberText(options.maxDays.val))
    /\ report = NoReport
    /\ now = NowStart
    /\ pc = "start"
    /\ apps = <<>>
    /\ appIdx = 0
    /\ allReleases = <<>>
    /\ releaseNames = <<>>
    /\ i = 0
    /\ inflight = {}
    /\ exitCode = 0
    /\ completeLogged = FALSE
    /\ thrown = NoError
    /\ obs = NewObs(NoApp)
    /\ history = <<>>
    /\ chunkFailed = FALSE
    /\ \E a \in Apps : twin = [target |-> a, started |-> FALSE, run |-> Undefined]
    /\ answer = <<>>

NextModes ==
    \/ Start
    \/ ListAppsToken
    \/ ListAppsResponse
    \/ ModesNextApp
    \/ ModesListReleasesToken
    \/ ModesListReleasesResponse
    \/ ModesDeleteReleasesToken
    \/ ModesDeleteResponse

SpecModes == InitModes /\ [][NextModes]_vars

\* The configuration boundary: the runs of the CLI, of the Action and of the
\* built CLI from option texts that may denote no policy.
\* "-1" and "abc" denote no policy; "\r1" and "1 day" denote 1
InvalidTexts == {<<45, 49>>, <<97, 98, 99>>}

SpacedTexts == {<<13, 49>>, <<49, 32, 100, 97, 121>>}

PolicyTexts(max) == {NumberText(n) : n \in 0..max} \cup SpacedTexts \cup InvalidTexts

\* -d texts whose cutoff is at and beyond the range of Date: "-99980110" (the
\* last day a Date holds), "-99980111" and "100019890" (the first days beyond)
FarTexts ==
    {<<45>> \o NumberText(99980110), <<45>> \o NumberText(99980111),
     NumberText(100019890)}

CredentialTexts(name) == {"", name}

BoundaryInputs ==
    {CliInputs(a, mc, md) :
        a \in Apps \cup {NoApp}, mc \in PolicyTexts(MaxMinCount),
        md \in PolicyTexts(MaxMaxDays) \cup FarTexts}
    \cup {ActionInputs(kj, kp, env, a, mc, md) :
        kj \in CredentialTexts("{}"), kp \in CredentialTexts("key.json"),
        env \in CredentialTexts("adc.json"), a \in {NoApp},
        mc \in {<<>>} \cup InvalidTexts, md \in {<<>>, <<49>>}}
    \cup {DistInputs(kj, kp, env, a, mc, md) :
        kj \in CredentialTexts("{}"), kp \in CredentialTexts("key.json"),
        env \in CredentialTexts("adc.json"), a \in {NoApp},
        mc \in {<<53>>} \cup InvalidTexts, md \in {<<51, 48>>}}

InitBoundary ==
    /\ big = FALSE
    /\ inputs \in BoundaryInputs
    /\ options = ParseOptions(inputs)
    /\ report = NoReport
    /\ now = NowStart
    /\ pc = IF inputs.entry = "action" THEN "run"
            ELSE IF inputs.entry = "dist" THEN "distMain" ELSE "start"
    /\ apps = <<>>
    /\ appIdx = 0
    /\ allReleases = <<>>
    /\ releaseNames = <<>>
    /\ i = 0
    /\ inflight = {}
    /\ exitCode = 0
    /\ completeLogged = FALSE
    /\ thrown = NoError
    /\ obs = NewObs(NoApp)
    /\ history = <<>>
    /\ chunkFailed = FALSE
    /\ twin = NoTwin
    /\ answer = <<>>

NextBoundary ==
    \/ Next
    \/ Run
    \/ PrunerRequest
    \/ PrunerResponse
    \/ PrunerEnds
    \/ RunEnd
    \/ DistMain
    \/ DistMainEnd

SpecBoundary == InitBoundary /\ [][NextBoundary]_vars

\* ------------------------------------------------------------- claims
Range(s) == {s[k] : k \in 1..Len(s)}

RECURSIVE Concat(_)
Concat(ss) == IF ss = <<>> THEN <<>> ELSE Head(ss) \o Concat(Tail(ss))

\* the names the batch-delete requests issued for the current app carry
RequestedNames == UNION {Range(obs.delReqs[k]) : k \in 1..Len(obs.delReqs)}

\* how many releases of rs come before rs[j] newest-first (ties: input order)
StableRank(rs, j) ==
    Cardinality({k \in 1..Len(rs) :
        \/ rs[k].createTime > rs[j].createTime
        \/ rs[k].createTime = rs[j].createTime /\ k < j})

\* C1: once an app's releases are sorted newest-first (a reordering of the
\* collected inventory in which no release precedes a newer one), the release at
\* 0-based rank i is in the deletion set iff i >= minCount and its createTime is
\* strictly before now - maxDays; a release at the cutoff, or of rank below
\* minCount, is kept.
C1_RetentionSelection ==
    obs.selected =>
        /\ Len(obs.sorted) = Len(obs.collected)
        /\ Range(obs.sorted) = Range(obs.collected)
        /\ \A k \in 1..(Len(obs.sorted) - 1) :
              obs.sorted[k].createTime >= obs.sorted[k + 1].createTime
        /\ \A k \in 1..Len(obs.sorted) :
              (obs.sorted[k] \in Range(obs.toDelete))
                  <=> (k - 1 >= options.minCount.val
                         /\ obs.sorted[k].createTime < now - options.maxDays.val)

\* a stale release of rank 0 is kept by the count floor, and the one after it,
\* created after it in the listing's order, is deleted
C1_Witness ==
    /\ obs.selected
    /\ options.minCount.val = 1
    /\ Len(obs.sorted) = 2
    /\ obs.sorted[1].createTime < now - options.maxDays.val
    /\ obs.sorted[1] \notin Range(obs.toDelete)
    /\ obs.sorted[2] \in Range(obs.toDelete)

\* C2: no batch-delete request issued for an app carries the name of a release
\* that is among the minCount newest of the app's collected inventory, whatever
\* the releases' ages, and at least min(minCount, n) of its n releases are in no
\* request.
C2_CountFloor ==
    /\ \A j \in 1..Len(obs.collected) :
          obs.collected[j].name \in RequestedNames
              => StableRank(obs.collected, j) >= options.minCount.val
    /\ Len(obs.collected) - Cardinality(RequestedNames)
          >= Min(options.minCount.val, Len(obs.collected))
    /\ \A rq \in inflight :
          rq.kind = "delete" => rq.app = obs.app /\ Range(rq.names) \subseteq RequestedNames

\* a request was issued while the newest release, kept by the floor, is stale
C2_Witness ==
    /\ Len(obs.delReqs) > 0
    /\ options.minCount.val >= 1
    /\ \E j \in 1..Len(obs.collected) :
          /\ StableRank(obs.collected, j) = 0
          /\ obs.collected[j].createTime < now - options.maxDays.val
          /\ obs.collected[j].name \notin RequestedNames

\* the names main hands to deleteReleases for the current app
DeletionNames == Names(obs.toDelete)

\* the number of chunks of chunkSize names that n names make
NumChunks(n) == (n + chunkSize - 1) \div chunkSize

\* C3: whatever the success / non-success responses, deleteReleases issues the
\* chunks one by one in chunk order, each exactly once: after a responses
\* (none of them a rejected fetch), its access token granted, it has issued
\* min(a + 1, number of chunks) requests, the k-th starting at name
\* (k - 1) * chunkSize + 1, and it returns only when every chunk has been
\* answered.
C3_ChunkFailureIsolation ==
    (obs.delCalled /\ ~obs.delThrew /\ pc # "tokenDelete") =>
        /\ Len(obs.delReqs) = Min(Len(obs.delResps) + 1, NumChunks(Len(DeletionNames)))
        /\ \A k \in 1..Len(obs.delReqs) :
              /\ Len(obs.delReqs[k]) > 0
              /\ obs.delReqs[k][1] = DeletionNames[(k - 1) * chunkSize + 1]
        /\ obs.delReturned <=> Len(obs.delResps) = NumChunks(Len(DeletionNames))

\* chunk 2 of 3 got a non-success response, and chunks 1 and 3 were issued and
\* succeeded
C3_Witness ==
    /\ obs.delReturned
    /\ Len(obs.delReqs) = 3
    /\ obs.delResps[1] = 200
    /\ obs.delResps[2] # 200
    /\ obs.delResps[3] = 200

\* C4: when a page request of an app's listing gets a non-success response, no
\* further page request is issued for that app, listReleases returns nothing
\* (no inventory, no selection), the error carries the status and the app, the
\* run ends and no batch-delete request was or is issued for that app.
C4_ListingFailureFatal ==
    obs.listFailed =>
        /\ Len(obs.listReqs) = Len(obs.listResps)
        /\ ~obs.listResps[Len(obs.listResps)].ok
        /\ \A k \in 1..(Len(obs.listResps) - 1) : obs.listResps[k].ok
        /\ ~obs.listed /\ ~obs.selected /\ ~obs.delCalled
        /\ obs.delReqs = <<>>
        /\ inflight = {}
        /\ pc = "done"
        /\ thrown.kind = "listReleases"
        /\ thrown.app = obs.app
        /\ thrown.status = obs.listResps[Len(obs.listResps)].status

\* the second page request failed after a first page that brought releases
C4_Witness ==
    /\ obs.listFailed
    /\ Len(obs.listResps) = 2
    /\ Len(allReleases) > 0

\* C5: in all-apps mode, if the release listing of one app fails, every app
\* that follows it in the app list is still processed.
C5_ListingFailureIsolated ==
    (pc = "done" /\ options.appId = NoApp /\ obs.listFailed) =>
        \A k \in 1..Len(apps) : apps[k] \in Range(history) \cup {obs.app}

\* the releases of the k-th page received, an absent list counting as empty
PageOf(k) ==
    IF obs.listResps[k].hasReleases THEN obs.listResps[k].releases ELSE <<>>

\* C6: the first listing request carries no token and each later one the token
\* of the page just before it; when the listing has been served N pages, the
\* first N - 1 with a token and the last without, exactly N requests were
\* issued and listReleases returns the N pages' releases concatenated in page
\* order (an absent list counting as empty, an all-empty listing giving the
\* empty sequence).
C6_Pagination ==
    /\ \A k \in 1..Len(obs.listReqs) :
          obs.listReqs[k] = IF k = 1 THEN None ELSE obs.listResps[k - 1].token
    /\ \A k \in 1..Len(obs.listResps) :
          (obs.listResps[k].ok /\ Truthy(obs.listResps[k].token))
              => Len(obs.listReqs) > k
    /\ obs.listed =>
          /\ Len(obs.listReqs) = Len(obs.listResps)
          /\ \A k \in 1..(Len(obs.listResps) - 1) : Truthy(obs.listResps[k].token)
          /\ ~Truthy(obs.listResps[Len(obs.listResps)].token)
          /\ obs.collected = Concat([k \in 1..Len(obs.listResps) |-> PageOf(k)])

\* two pages of one release each, the older release on the first page, the
\* second request carrying the first page's token
C6_Witness ==
    /\ obs.listed
    /\ Len(obs.listResps) = 2
    /\ Len(PageOf(1)) = 1
    /\ Len(PageOf(2)) = 1
    /\ obs.listReqs[2] = PageToken(1)
    /\ PageOf(1)[1].createTime < PageOf(2)[1].createTime

\* C7: the batch-delete requests carry consecutive slices of the deletion set:
\* every request carries between 1 and chunkSize names, and when deleteReleases
\* returns, the requests' names concatenated in issue order are the deletion
\* set, every request but the last carries exactly chunkSize names, and there
\* are ceil(n / chunkSize) requests.
C7_Chunking ==
    /\ \A k \in 1..Len(obs.delReqs) :
          Len(obs.delReqs[k]) >= 1 /\ Len(obs.delReqs[k]) <= chunkSize
    /\ obs.delReturned =>
          /\ Concat(obs.delReqs) = DeletionNames
          /\ \A k \in 1..(Len(obs.delReqs) - 1) : Len(obs.delReqs[k]) = chunkSize
          /\ Len(obs.delReqs) = NumChunks(Len(DeletionNames))

\* 250 names went out as chunks of 100, 100 and 50
C7_Witness ==
    /\ obs.delReturned
    /\ Len(DeletionNames) = 250
    /\ [k \in 1..Len(obs.delReqs) |-> Len(obs.delReqs[k])] = <<100, 100, 50>>

\* the Outcome the claim describes, from the requests and their responses
ExpectedOutcome ==
    LET ok == {k \in 1..Len(obs.delResps) : obs.delResps[k] = 200}
        RECURSIVE Sum(_)
        Sum(ks) == IF ks = {} THEN 0
                   ELSE LET k == CHOOSE x \in ks : TRUE
                        IN  Len(obs.delReqs[k]) + Sum(ks \ {k})
        Failed(r) == r.error # 200
        pairs == [k \in 1..Len(obs.delResps) |->
                     [identifiers |-> obs.delReqs[k], error |-> obs.delResps[k]]]
    IN  [type |-> "object", deletedCount |-> Sum(ok), failedChunks |-> SelectSeq(pairs, Failed)]

\* C8: deleteReleases returns an Outcome whose deletedCount is the sum of the
\* sizes of the chunks whose request succeeded and whose failedChunks are the
\* chunks whose request got a non-success response, with identifiers and error.
C8_OutcomeAccounting ==
    obs.delReturned => obs.outcome = ExpectedOutcome

\* C9: a run in which a listing call failed or a batch-delete chunk got a
\* non-success response ends in a final outcome (exit status, completion line)
\* that differs from that of a run in which every remote call succeeded
\* (exit status 0 and "Pruning complete.").
C9_FailureVisible ==
    (pc = "done" /\ (obs.listFailed \/ chunkFailed)) =>
        <<exitCode, completeLogged>> # <<0, TRUE>>

\* C10: no batch-delete request is sent for an app whose inventory or deletion
\* set is empty (every such request carries at least one name of a non-empty
\* deletion set of the app being processed), and that app ends normally: no
\* request, no response, no error, the run goes on or completes with status 0.
C10_EmptyWorkNoDelete ==
    /\ \A rq \in inflight :
          rq.kind = "delete" =>
              /\ rq.app = obs.app
              /\ Len(rq.names) > 0
              /\ Len(obs.collected) > 0
              /\ Len(obs.toDelete) > 0
    /\ (obs.listed /\ (Len(obs.collected) = 0 \/ Len(obs.toDelete) = 0)) =>
          /\ obs.delReqs = <<>>
          /\ obs.delResps = <<>>
          /\ ~obs.delThrew
          /\ pc \in {"loop", "done"}
          /\ exitCode = 0
          /\ thrown = NoError
          /\ pc = "done" => completeLogged

\* an app with releases, none of them to delete, was finished with
C10_Witness ==
    /\ obs.listed
    /\ Len(obs.collected) > 0
    /\ Len(obs.toDelete) = 0
    /\ pc = "loop"

\* C11: in all-apps mode, whatever ends deleteReleases' wait for its access
\* token (granted, refused) or answers a batch-delete request (success,
\* non-success, or a rejected fetch) the run neither exits nor records an
\* error: it goes on with the app's next chunk or returns to the loop over the
\* apps with the app finished; a non-success response raises nothing; an
\* error raised by deleteReleases (its access token refused, a rejected fetch)
\* is caught there too; and the loop, while apps remain, calls listReleases for
\* the next app of the app list: its first listing request is issued, unless
\* that call's own access token is refused.
C11_DeleterFailureIsolated ==
    [][/\ (pc \in {"tokenDelete", "awaitDelete"} /\ options.appId = NoApp) =>
            /\ pc' \in {"awaitDelete", "loop"}
            /\ exitCode' = 0
            /\ thrown' = NoError
            /\ pc' = "loop" => history' = Append(history, obs.app)
            /\ (Len(obs'.delResps) > 0 /\ obs'.delResps[Len(obs'.delResps)] \in FailStatuses)
                  => ~obs'.delThrew
       /\ (options.appId = NoApp /\ ~obs.delThrew /\ obs'.delThrew) =>
            /\ pc' = "loop"
            /\ exitCode' = 0
            /\ thrown' = NoError
            /\ history' = Append(history, obs'.app)
       /\ (pc = "loop" /\ appIdx < Len(apps)) =>
            /\ pc' = "tokenList"
            /\ obs'.app = apps[appIdx + 1]
       /\ (pc = "tokenList" /\ options.appId = NoApp) =>
            \/ /\ pc' = "awaitList"
               /\ inflight' = {[kind |-> "list", app |-> apps[appIdx],
                                token |-> None, names |-> <<>>]}
            \/ /\ pc' = "done"
               /\ thrown' = Err("auth", apps[appIdx], 0)
      ]_vars

\* the second app of the list is being pruned after a chunk of the first one
\* got a non-success response
C11_Witness ==
    /\ pc = "awaitDelete"
    /\ appIdx = 2
    /\ chunkFailed
    /\ obs.delResps = <<>>
    /\ history = <<apps[1]>>

\* C12: at most one request is outstanding, and one is outstanding exactly
\* while the run awaits a response (none while a call waits for its access
\* token, before its first request); an outstanding request belongs to the app
\* being processed, and every earlier request of that app has been answered;
\* in all-apps mode the apps finished so far are the app list's first ones, in
\* the list's order, and the app being processed is the one right after them.
C12_Sequential ==
    /\ Cardinality(inflight) <= 1
    /\ inflight # {} <=> pc \in {"awaitApps", "awaitList", "awaitDelete"}
    /\ \A rq \in inflight :
          /\ rq.kind = "apps" => pc = "awaitApps" /\ obs.app = NoApp /\ history = <<>>
          /\ rq.kind = "list" =>
                /\ pc = "awaitList"
                /\ rq.app = obs.app
                /\ Len(obs.listReqs) = Len(obs.listResps) + 1
                /\ obs.delReqs = <<>>
          /\ rq.kind = "delete" =>
                /\ pc = "awaitDelete"
                /\ rq.app = obs.app
                /\ Len(obs.listReqs) = Len(obs.listResps)
                /\ Len(obs.delReqs) = Len(obs.delResps) + 1
    /\ (inflight = {} /\ thrown.kind # "fetch") =>
          /\ Len(obs.listReqs) = Len(obs.listResps)
          /\ Len(obs.delReqs) = Len(obs.delResps)
    /\ pc = "tokenList" => obs.listReqs = <<>>
    /\ pc = "tokenDelete" => obs.delReqs = <<>> /\ Len(obs.toDelete) > 0
    /\ options.appId = NoApp =>
          /\ Len(history) <= Len(apps)
          /\ history = SubSeq(apps, 1, Len(history))
          /\ appIdx \in {Len(history), Len(history) + 1}
          /\ appIdx > Len(history) => obs.app = apps[appIdx]
          /\ pc \in {"tokenList", "awaitList", "tokenDelete", "awaitDelete"}
                => appIdx = Len(history) + 1

\* the second app of the list awaits its second listing page, the first app
\* being finished
C12_Witness ==
    /\ pc = "awaitList"
    /\ Len(apps) = 2
    /\ appIdx = 2
    /\ history = <<apps[1]>>
    /\ Len(obs.listReqs) = 2
    /\ Len(obs.listResps) = 1

\* the run failed for its configuration: the Action's gate, a key file the
\* CLI cannot load, or runPruner's ConfigurationInvalid
ConfigurationFailed ==
    report.failed = GateMessage \/ thrown.kind \in {"key", "ConfigurationInvalid"}

\* what main's outer catch prints (index.ts 326): console.error("Error during
\* script execution:", error), the caught error. The catch of the built CLI
\* prints nothing; what the Action's run reports is report.failed
Printed(s) ==
    IF inputs.entry = "cli" /\ s.pc = "done" THEN s.thrown ELSE NoError

\* what a run that is over shows: its exit status, the completion line, the
\* error the CLI's outer catch printed, and the Action's failure message and
\* info line
Outcome(s) ==
    [exitCode |-> s.exitCode, complete |-> s.completeLogged,
     printed |-> Printed(s),
     failed |-> s.report.failed, info |-> s.report.info]

\* the failures of a remote call in mid-run, as the entry's catch gets them
RemoteFailures ==
    IF inputs.entry = "cli"
    THEN {Err(kind, a, st) : kind \in {"listApps", "listReleases"},
                             a \in Apps \cup {NoApp}, st \in FailStatuses}
    ELSE {Err("ListingFailed", NoApp, st) : st \in FailStatuses}

\* the outcome of a run of the same entry that the failure err of a remote
\* call ends in mid-run: the entry's catch, reached with exit status 0, no
\* completion line and nothing reported yet
OutcomeOfRemoteFailure(err) ==
    LET s == [S EXCEPT !.exitCode = 0, !.completeLogged = FALSE,
                       !.report = [NoReport EXCEPT !.remote = TRUE],
                       !.thrown = err]
    IN  Outcome(IF inputs.entry = "action" THEN Caught(s)
                ELSE IF inputs.entry = "dist" THEN DistCaught(s)
                ELSE Exit1(s, err))

\* C13: a run, of any of the three entries, for which no credential source
\* resolves (none is given: no inline key, no key path, no ambient credentials;
\* or the CLI's key file cannot be loaded) never makes a remote call or has one
\* outstanding, and ends failed, without the completion line or the info line.
\* And a run that ended with a configuration failure shows an outcome (exit
\* status, completion line, printed error, failure message, info line) that no
\* failure of a remote call in mid-run gives a run of the same entry.
C13_ConfigurationGate ==
    /\ (~CredentialGiven(inputs) \/ thrown.kind = "key") =>
          /\ inflight = {}
          /\ ~report.remote
          /\ apps = <<>>
          /\ obs.listReqs = <<>>
          /\ obs.delReqs = <<>>
          /\ pc = "done" =>
                /\ exitCode = 1
                /\ ~completeLogged
                /\ ~report.info
    /\ (pc = "done" /\ ConfigurationFailed) =>
          \A err \in RemoteFailures : Outcome(S) # OutcomeOfRemoteFailure(err)

\* the names of the releases the current app's listing pages returned
ListedNames ==
    UNION {{PageOf(k)[j].name : j \in 1..Len(PageOf(k))} : k \in 1..Len(obs.listResps)}

\* C14: every name a batch-delete request carries (sent or outstanding), and
\* every name handed to deleteReleases, is the name of a release that a page
\* of the same app's listing returned in this run, and the request is
\* addressed to that app.
C14_NamesUnmodified ==
    /\ \A k \in 1..Len(obs.delReqs) : Range(obs.delReqs[k]) \subseteq ListedNames
    /\ obs.delCalled => Range(releaseNames) \subseteq ListedNames
    /\ \A rq \in inflight :
          rq.kind = "delete" =>
              /\ rq.app = obs.app
              /\ Range(rq.names) \subseteq ListedNames
              /\ \A n \in Range(rq.names) : n[1] = obs.app

\* the second app's request carries the second release of its listing only
C14_Witness ==
    /\ pc = "awaitDelete"
    /\ appIdx = 2
    /\ Len(obs.collected) = 2
    /\ \E rq \in inflight : rq.names = <<obs.collected[2].name>>

\* the releases main leaves alone: those of the sorted inventory it did not select
KeepSet ==
    LET Kept(r) == r \notin Range(obs.toDelete)
    IN  SelectSeq(obs.sorted, Kept)

\* C15: once an app's selection is made, the deletion set and the keep set
\* have no release in common, together they are exactly the releases the
\* listing collected (as many, too), and no release is twice in the deletion
\* set.
C15_Partition ==
    obs.selected =>
        /\ Range(KeepSet) \cap Range(obs.toDelete) = {}
        /\ Range(KeepSet) \cup Range(obs.toDelete) = Range(obs.collected)
        /\ Len(KeepSet) + Len(obs.toDelete) = Len(obs.collected)
        /\ \A j, k \in 1..Len(obs.toDelete) :
              obs.toDelete[j] = obs.toDelete[k] => j = k

\* two releases of the same day, one kept and one selected
C15_Witness ==
    /\ obs.selected
    /\ Len(obs.collected) = 2
    /\ obs.collected[1].createTime = obs.collected[2].createTime
    /\ Len(KeepSet) = 1
    /\ Len(obs.toDelete) = 1

\* C16: a run whose minCount or maxDays text denotes a negative number or no
\* number is rejected before anything else: it never has a request
\* outstanding, never lists apps or releases, never selects and never calls
\* runPruner.
C16_PolicyValidated ==
    (IsNaN(ParseInt(inputs.minCount)) \/ ParseInt(inputs.minCount).val < 0
        \/ IsNaN(ParseInt(inputs.maxDays)) \/ ParseInt(inputs.maxDays).val < 0)
    /\ inputs.entry = "cli" =>
        /\ inflight = {}
        /\ apps = <<>>
        /\ obs.listReqs = <<>>
        /\ ~obs.selected
        /\ obs.delReqs = <<>>

\* C17: in single-app mode, once a listing request of the app got a
\* non-success response the run is over with a non-zero exit status and
\* without the completion line, and no batch-delete request was issued or is
\* outstanding.
C17_SingleAppListingFailure ==
    (options.appId # NoApp /\ obs.listFailed) =>
        /\ pc = "done"
        /\ exitCode # 0
        /\ ~completeLogged
        /\ obs.app = options.appId
        /\ ~obs.delCalled
        /\ obs.delReqs = <<>>
        /\ \A rq \in inflight : rq.kind # "delete"

\* the given app's second page request failed after a page of releases old
\* enough to be deleted
C17_Witness ==
    /\ options.appId # NoApp
    /\ obs.listFailed
    /\ Len(obs.listResps) = 2
    /\ options.minCount.val = 0
    /\ \E k \in 1..Len(allReleases) : allReleases[k].createTime < now - options.maxDays.val

\* the place of release r in the inventory as the listing returned it
InputIndex(r) == CHOOSE j \in 1..Len(obs.collected) : obs.collected[j] = r

\* C18: once an app's selection is made, the deletion set is the last
\* Len(toDelete) releases of the sorted inventory, in that order; the sorted
\* inventory lists each release at its stable newest-first rank; so no
\* selected release is newer than a kept one, and the deletion set is
\* newest-first with releases of equal createTime in their input order.
C18_RecencyOrdering ==
    obs.selected =>
        /\ obs.toDelete = SubSeq(obs.sorted, Len(obs.sorted) - Len(obs.toDelete) + 1,
                                 Len(obs.sorted))
        /\ \A j \in 1..Len(obs.collected) :
              obs.sorted[StableRank(obs.collected, j) + 1] = obs.collected[j]
        /\ \A d \in Range(obs.toDelete), r \in Range(KeepSet) :
              d.createTime <= r.createTime
        /\ \A j, k \in 1..Len(obs.toDelete) :
              j < k =>
                  \/ obs.toDelete[j].createTime > obs.toDelete[k].createTime
                  \/ /\ obs.toDelete[j].createTime = obs.toDelete[k].createTime
                     /\ InputIndex(obs.toDelete[j]) < InputIndex(obs.toDelete[k])

\* two releases of the same day are both selected, in their input order
C18_Witness ==
    /\ obs.selected
    /\ Len(obs.toDelete) = 2
    /\ obs.toDelete[1].createTime = obs.toDelete[2].createTime
    /\ obs.toDelete = obs.collected

\* C19: with a finite app list and listings that end (the service hands out
\* at most MaxPages - 1 continuation tokens per listing), every run in which
\* requests keep being answered reaches its end (completed, returned early,
\* or exited with status 1), whatever the chunk responses; an app's listing
\* issues at most MaxPages requests and its deletion at most
\* ceil(n / chunkSize) requests for n names.
C19_Termination ==
    /\ <>(pc = "done")
    /\ [](/\ Len(obs.listReqs) <= MaxPages
          /\ Len(obs.delReqs) <= NumChunks(Len(DeletionNames))
          /\ Len(history) <= Len(apps) + 1
          /\ pc = "done" => inflight = {})

\* a run over two apps ended after a failed chunk and a listing of two pages
C19_Witness ==
    /\ pc = "done"
    /\ completeLogged
    /\ Len(history) = 2
    /\ chunkFailed
    /\ Len(obs.listReqs) = MaxPages

\* the deletion set of the current app's sorted inventory under another policy
DeletionSetUnder(minCount, maxDays) ==
    Range(ReleasesToDelete(obs.sorted, Number(minCount), CutoffDate(now, Number(maxDays))))

\* C20: once an app's selection is made under (minCount, maxDays), the
\* deletion set of the same inventory at the same time under any policy with
\* a minCount and a maxDays at least as large is a subset of the one made; and
\* with minCount = 0 the deletion set is exactly the releases created before
\* now - maxDays.
C20_PolicyMonotone ==
    obs.selected =>
        /\ \A m \in options.minCount.val..(MaxMinCount + 1),
              d \in options.maxDays.val..(MaxMaxDays + 1) :
              DeletionSetUnder(m, d) \subseteq Range(obs.toDelete)
        /\ options.minCount.val = 0 =>
              Range(obs.toDelete)
                  = {r \in Range(obs.collected) : r.createTime < now - options.maxDays.val}

\* both releases are selected under (0, 0); one of them only under (1, 0),
\* none under (0, 2)
C20_Witness ==
    /\ obs.selected
    /\ options.minCount.val = 0
    /\ options.maxDays.val = 0
    /\ Len(obs.toDelete) = 2
    /\ Cardinality(DeletionSetUnder(1, 0)) = 1
    /\ DeletionSetUnder(0, 2) = {}

\* C21: while and after the run without -a processes the app target in the
\* all-apps branch of main, the run with -a target, which takes the single-app
\* branch and got the same responses, has issued the same listing
\* requests (the same tokens in the same order) and the same batch-delete
\* requests (the same names in the same order), has the same request
\* outstanding, and is over exactly when the first run is done with the app.
C21_ModeEquivalence ==
    twin.started =>
        /\ obs.app = twin.target
        /\ twin.run.obs.app = twin.target
        /\ twin.run.obs.listReqs = obs.listReqs
        /\ twin.run.obs.delReqs = obs.delReqs
        /\ twin.run.inflight = inflight
        /\ twin.run.pc = "done" <=> pc \in {"loop", "done"}

\* the second app of the list was listed in two pages and pruned with one
\* request; the run with -a is complete and sent the same
C21_Witness ==
    /\ twin.started
    /\ appIdx = 2
    /\ pc = "loop"
    /\ Len(obs.listReqs) = 2
    /\ Len(obs.delReqs) = 1
    /\ Len(obs.delReqs[1]) = 2
    /\ twin.run.pc = "done"
    /\ twin.run.completeLogged
    /\ twin.run.obs.delReqs = obs.delReqs

====
